---- MODULE Spec2Model ----
(***************************************************************************)
(* Model of the UNR_PSY_763 teaching notebooks:                            *)
(*   utils/Labeler_example.ipynb        image labelling + design matrix    *)
(*   Week_13_.../..._answers.ipynb      gauss, ridge, linearized model     *)
(*   Week_14_PCA/Week_14_PCA.ipynb      projection of b onto a             *)
(* Python sequences are 0-based; TLA+ sequences are 1-based.  Index        *)
(* values keep the Python (0-based) convention and 1 is added on access.   *)
(***************************************************************************)
EXTENDS Integers, Sequences, FiniteSets, TLC

VARIABLES
    \* ---- Labeler_example.ipynb: kernel namespace and the file system
    pc,             \* the next cell (or loop position) of the labeler notebook
    tag_specs,      \* dict bound by the second code cell (empty until then)
    tag_dict,       \* dict bound by the configuration cell (empty until then)
    image_tagger,   \* the ImageTagger widget object
    files,          \* file name -> file record (the disk; survives the kernel)
    tagged,         \* history: image indices the user has tagged in any session
    features,       \* result of json.load(open(tag_file))
    feature_names,
    feature_labels,
    n_images,
    n_features,
    X,              \* design matrix, a sequence of rows
    i,              \* loop variable of the conversion loop (0-based)
    bound,          \* names bound in the kernel namespace of the labeler notebook
    shown,          \* what the visualization cell handed to plt.imshow
    \* ---- Week 13: calls of gauss and ridge, and the linearized-model cells
    gauss_call,     \* arguments, state and result of one call of gauss
    ridge_call,     \* arguments, state and result of one call of ridge
    pc13,           \* the next cell (or loop position) of the Week 13 notebook
    isig,           \* position of the outer loop (0-based index into sigma_vals)
    imu,            \* position of the inner loop (0-based index into mu_vals)
    gausses,
    Xreg,
    B_est,
    gausses_test,
    Xtest,
    b_square,
    yhat_reg,       \* a prediction X.dot(B_est), kept as its (regressor, weight) terms
    \* ---- Week 14: the projection cells
    pc14,
    a,
    b,
    length_a,
    length_b,
    proj_b_to_a,
    a_2d,
    b_2d,
    proj_b_to_a_fancy,
    frac_of_a,
    c1,
    c2,
    bound14,        \* names bound in the Week 14 kernel's namespace
    cell14          \* number of Week 14 code cells run so far, in file order

labVars == <<pc, tag_specs, tag_dict, image_tagger, files, tagged, features,
             feature_names, feature_labels, n_images, n_features, X, i,
             bound, shown>>

w13Vars == <<gauss_call, ridge_call, pc13, isig, imu, gausses, Xreg, B_est,
             gausses_test, Xtest, b_square, yhat_reg>>

w14Vars == <<pc14, a, b, length_a, length_b, proj_b_to_a, a_2d, b_2d,
             proj_b_to_a_fancy, frac_of_a, c1, c2, bound14, cell14>>

vars == <<labVars, w13Vars, w14Vars>>

-----------------------------------------------------------------------------
(* Python helpers *)

Range(s) == {s[k] : k \in DOMAIN s}

IndexLenient(s, x) ==
    IF x \in Range(s)
    THEN (CHOOSE k \in DOMAIN s : s[k] = x /\ \A m \in DOMAIN s : s[m] = x => k <= m) - 1
    ELSE Len(s) - 1

\* list.index(x): 0-based position of the first occurrence, -1 for ValueError
Index(s, x) ==
    IF x \in Range(s)
    THEN (CHOOSE k \in DOMAIN s : s[k] = x /\ \A m \in DOMAIN s : s[m] = x => k <= m) - 1
    ELSE -1

np_ones(rows, cols) == [r \in 1..rows |-> [c \in 1..cols |-> 1]]

\* np.zeros((rows, cols))
np_zeros(rows, cols) == [r \in 1..rows |-> [c \in 1..cols |-> 0]]

EmptyDict == [k \in {} |-> <<>>]

\* the Week 13 notebook before any of its cells has run
W13Idle ==
    /\ gauss_call = [state |-> "none"]
    /\ ridge_call = [state |-> "none"]
    /\ pc13 = "idle"
    /\ isig = 0
    /\ imu = 0
    /\ gausses = <<>>
    /\ Xreg = <<>>
    /\ B_est = <<>>
    /\ gausses_test = <<>>
    /\ Xtest = <<>>
    /\ b_square = <<>>
    /\ yhat_reg = <<>>

\* the Week 14 notebook before any of its cells has run
W14Idle ==
    /\ pc14 = "idle"
    /\ a = <<>>
    /\ b = <<>>
    /\ length_a = <<>>
    /\ length_b = <<>>
    /\ proj_b_to_a = <<>>
    /\ a_2d = <<>>
    /\ b_2d = <<>>
    /\ proj_b_to_a_fancy = <<>>
    /\ frac_of_a = <<>>
    /\ c1 = <<>>
    /\ c2 = <<>>
    /\ bound14 = {}
    /\ cell14 = 0

-----------------------------------------------------------------------------
(* Labeler_example.ipynb: configuration cells *)

\* Number of image indices of label_range.  The notebook uses 1386; the model
\* uses a small range.
NumImages == 2

tag_specs_reward_no_sentinel ==
    [outdoors |-> <<"outdoors", "indoors", "under water", "unclear", "not a scene", "untagged">>,
     evoked_emotion |-> <<"Anger", "Disgust", "Fear", "Happiness", "Sadness", "Surprise", "Neutral", "untagged">>,
     reward |-> <<"0", "1", "2", "3", "4">>,
     curves_vs_lines |-> <<"curved", "mix", "lines", "untagged">>]

tag_specs_value ==
    [outdoors |-> <<"outdoors", "indoors", "under water", "unclear", "not a scene", "untagged">>,
     evoked_emotion |-> <<"Anger", "Disgust", "Fear", "Happiness", "Sadness", "Surprise", "Neutral", "untagged">>,
     reward |-> <<"0", "1", "2", "3", "4", "untagged">>,
     curves_vs_lines |-> <<"curved", "mix", "lines", "untagged">>]

distance_features_no_sentinel ==
    <<"<2 ft", "<4 ft (arm's length)", "<20 ft (same room)", "< 100 ft", "> 100 ft">>

distance_features ==
    <<"<2 ft", "<4 ft (arm's length)", "<20 ft (same room)", "< 100 ft", "> 100 ft", "untagged">>

tag_dict_value == [distance |-> distance_features]

feature_classes == <<"distance">>

\* range(0, NumImages, 1)
label_range == [k \in 1..NumImages |-> k - 1]

tag_file == "demo_labels.json"

FileNames == {tag_file}

short_range == [k \in 1..(NumImages - 1) |-> k - 1]

\* the tag_range keyword argument of the ImageTagger(...) call
tag_range_arg == label_range

-----------------------------------------------------------------------------
(* labeler.ImageTagger: not part of the sources; modelled from the          *)
(* description of its label file and of its save button.                    *)

NoTagger == [alive |-> FALSE]

NoFile == [exists |-> FALSE]

\* position (1-based) of image index im in the range rng
PosIn(rng, im) == CHOOSE p \in DOMAIN rng : rng[p] = im

AlwaysUntagged(file, my_feature, tag_range) ==
    [F \in Range(my_feature) |-> [im \in Range(tag_range) |-> "untagged"]]

\* labels of a new widget: the saved ones when the tag file exists,
\* "untagged" otherwise
InitialLabels(file, my_feature, tag_range) ==
    [F \in Range(my_feature) |->
        [im \in Range(tag_range) |->
            IF file.exists /\ F \in DOMAIN file.json
                           /\ PosIn(tag_range, im) \in DOMAIN file.json[F]
            THEN file.json[F][PosIn(tag_range, im)]
            ELSE "untagged"]]

ImageTagger(td, my_feature, tag_range, tag_filename, fs) ==
    [alive |-> TRUE,
     tag_dict |-> td,
     my_feature |-> my_feature,
     tag_range |-> tag_range,
     tag_filename |-> tag_filename,
     labels |-> InitialLabels(fs[tag_filename], my_feature, tag_range)]

\* the JSON object the save button writes: one array per tagged feature, in
\* the order of tag_range, plus the tag specification
LabelFile(t) ==
    [k \in Range(t.my_feature) \cup {"tag_specs"} |->
        IF k = "tag_specs"
        THEN t.tag_dict
        ELSE [p \in 1..Len(t.tag_range) |-> t.labels[k][t.tag_range[p]]]]

-----------------------------------------------------------------------------
(* Labeler_example.ipynb: the cells, in file order *)

KernelFresh ==
    /\ pc = "imports"
    /\ tag_specs = EmptyDict
    /\ tag_dict = EmptyDict
    /\ image_tagger = NoTagger
    /\ features = EmptyDict
    /\ feature_names = <<>>
    /\ feature_labels = <<>>
    /\ n_images = 0
    /\ n_features = 0
    /\ X = <<>>
    /\ i = 0
    /\ bound = {}
    /\ shown = <<>>

\* the labeler notebook before any of its cells has run, nothing on disk
LabIdle ==
    /\ KernelFresh
    /\ files = [f \in FileNames |-> NoFile]
    /\ tagged = {}

Init ==
    /\ LabIdle
    /\ W13Idle
    /\ W14Idle

convVars == <<features, feature_names, feature_labels, n_images, n_features, X, i,
              shown>>

\* the names each code cell reads from and binds in the kernel namespace
LabelerCells ==
    [imports   |-> [reads |-> {},
                    binds |-> {"plt", "np", "json", "os", "ImageTagger"}],
     tag_specs |-> [reads |-> {},
                    binds |-> {"tag_specs"}],
     config    |-> [reads |-> {},
                    binds |-> {"distance_features", "tag_dict", "feature_classes",
                               "label_range", "tag_file"}],
     create    |-> [reads |-> {"ImageTagger", "tag_dict", "feature_classes",
                               "label_range", "tag_file"},
                    binds |-> {"image_tagger"}],
     display   |-> [reads |-> {"image_tagger"},
                    binds |-> {}],
     load      |-> [reads |-> {"json", "tag_file"},
                    binds |-> {"features"}],
     convert   |-> [reads |-> {"tag_dict", "features", "np"},
                    binds |-> {"feature_names", "feature_labels", "n_images",
                               "n_features", "X"}],
     loop      |-> [reads |-> {"feature_labels", "feature_names", "X"},
                    binds |-> {"i", "this_label", "j"}],
     visualize |-> [reads |-> {"plt", "cond_numbers"},
                    binds |-> {}]]

\* import cell
RunImports ==
    /\ pc = "imports"
    /\ pc' = "tag_specs"
    /\ bound' = bound \cup LabelerCells.imports.binds
    /\ UNCHANGED <<tag_specs, tag_dict, image_tagger, files, tagged, convVars, w13Vars, w14Vars>>

\* tag_specs cell
RunTagSpecs ==
    /\ pc = "tag_specs"
    /\ tag_specs' = tag_specs_value
    /\ pc' = "config"
    /\ bound' = bound \cup LabelerCells.tag_specs.binds
    /\ UNCHANGED <<tag_dict, image_tagger, files, tagged, convVars, w13Vars, w14Vars>>

\* configuration cell
RunConfig ==
    /\ pc = "config"
    /\ tag_dict' = tag_dict_value
    /\ pc' = "create"
    /\ bound' = bound \cup LabelerCells.config.binds
    /\ UNCHANGED <<tag_specs, image_tagger, files, tagged, convVars, w13Vars, w14Vars>>

\* image_tagger = ImageTagger(tag_dict, my_feature=..., tag_range=..., tag_filename=...)
CreateWidget ==
    /\ pc = "create"
    /\ image_tagger' = ImageTagger(tag_dict, feature_classes, tag_range_arg, tag_file, files)
    /\ pc' = "display"
    /\ bound' = bound \cup LabelerCells.create.binds
    /\ UNCHANGED <<tag_specs, tag_dict, files, tagged, convVars, w13Vars, w14Vars>>

\* the cell that displays the widget
DisplayWidget ==
    /\ pc = "display"
    /\ pc' = "tagging"
    /\ bound' = bound \cup LabelerCells.display.binds
    /\ UNCHANGED <<tag_specs, tag_dict, image_tagger, files, tagged, convVars, w13Vars, w14Vars>>

\* the user clicks a level for an image of the range
TagImage ==
    /\ pc = "tagging"
    /\ \E F \in Range(image_tagger.my_feature) :
       \E im \in Range(image_tagger.tag_range) :
       \E level \in Range(image_tagger.tag_dict[F]) :
          /\ image_tagger' = [image_tagger EXCEPT !.labels[F][im] = level]
          /\ tagged' = tagged \cup {im}
    /\ UNCHANGED <<pc, tag_specs, tag_dict, files, convVars, bound, w13Vars, w14Vars>>

\* the user clicks "save"
SaveTags ==
    /\ pc = "tagging"
    /\ files' = [files EXCEPT ![image_tagger.tag_filename] =
                    [exists |-> TRUE, json |-> LabelFile(image_tagger)]]
    /\ UNCHANGED <<pc, tag_specs, tag_dict, image_tagger, tagged, convVars, bound,
                   w13Vars, w14Vars>>

\* features = json.load(open(tag_file))
RunLoad ==
    /\ pc = "tagging"
    /\ IF files[tag_file].exists
       THEN /\ features' = files[tag_file].json
            /\ bound' = bound \cup LabelerCells.load.binds
            /\ pc' = "convert"
       ELSE /\ features' = features
            /\ bound' = bound
            /\ pc' = "error"      \* FileNotFoundError
    /\ UNCHANGED <<tag_specs, tag_dict, image_tagger, files, tagged,
                   feature_names, feature_labels, n_images, n_features, X, i,
                   shown, w13Vars, w14Vars>>

\* conversion cell up to X = np.zeros(...); the for loop is entered here
ConvertSetup ==
    /\ pc = "convert"
    /\ IF "tag_specs" \in DOMAIN features /\ "distance" \in DOMAIN features["tag_specs"]
       THEN /\ feature_names' = tag_dict["distance"]
            /\ feature_labels' = features["tag_specs"]["distance"]
            /\ n_images' = Len(feature_labels')
            /\ n_features' = Len(feature_names')
            /\ X' = np_zeros(n_images', n_features')
            /\ i' = 0
            /\ bound' = bound \cup LabelerCells.convert.binds
            /\ pc' = IF n_images' = 0 THEN "visualize" ELSE "loop"
       ELSE /\ pc' = "error"      \* KeyError
            /\ feature_names' = tag_dict["distance"]
            /\ bound' = bound \cup {"feature_names"}
            /\ UNCHANGED <<feature_labels, n_images, n_features, X, i>>
    /\ UNCHANGED <<tag_specs, tag_dict, image_tagger, files, tagged, features,
                   shown, w13Vars, w14Vars>>

\* one iteration of: for i, this_label in enumerate(feature_labels)
ConvertStep ==
    /\ pc = "loop"
    /\ LET this_label == feature_labels[i + 1]
           j == Index(feature_names, this_label)
       IN IF j = -1
          THEN /\ pc' = "error"   \* ValueError, uncaught
               /\ bound' = bound \cup {"i", "this_label"}
               /\ UNCHANGED <<X, i>>
          ELSE /\ X' = [X EXCEPT ![i + 1][j + 1] = 1]
               /\ i' = i + 1
               /\ bound' = bound \cup LabelerCells.loop.binds
               /\ pc' = IF i + 1 = n_images THEN "visualize" ELSE "loop"
    /\ UNCHANGED <<tag_specs, tag_dict, image_tagger, files, tagged, features,
                   feature_names, feature_labels, n_images, n_features,
                   shown, w13Vars, w14Vars>>

\* plt.imshow(cond_numbers[:300].T, aspect='auto')
RunVisualize ==
    /\ pc = "visualize"
    /\ IF LabelerCells.visualize.reads \subseteq bound
       THEN /\ shown' = [array |-> "cond_numbers", rows |-> "[:300]", transposed |-> TRUE]
            /\ pc' = "done"
       ELSE /\ shown' = shown
            /\ pc' = "error"     \* NameError: name 'cond_numbers' is not defined
    /\ UNCHANGED <<tag_specs, tag_dict, image_tagger, files, tagged, features,
                   feature_names, feature_labels, n_images, n_features, X, i,
                   bound, w13Vars, w14Vars>>

\* the kernel is restarted and the notebook run again; the disk is kept
RestartKernel ==
    /\ pc \in {"tagging", "visualize", "error"}
    /\ pc' = "imports"
    /\ tag_specs' = EmptyDict
    /\ tag_dict' = EmptyDict
    /\ image_tagger' = NoTagger
    /\ features' = EmptyDict
    /\ feature_names' = <<>>
    /\ feature_labels' = <<>>
    /\ n_images' = 0
    /\ n_features' = 0
    /\ X' = <<>>
    /\ i' = 0
    /\ bound' = {}
    /\ shown' = <<>>
    /\ UNCHANGED <<files, tagged, w13Vars, w14Vars>>

Next ==
    \/ RunImports
    \/ RunTagSpecs
    \/ RunConfig
    \/ CreateWidget
    \/ DisplayWidget
    \/ TagImage
    \/ SaveTags
    \/ RunLoad
    \/ ConvertSetup
    \/ ConvertStep
    \/ RunVisualize
    \/ RestartKernel

Spec == Init /\ [][Next]_vars

-----------------------------------------------------------------------------
(* The conversion cell on its own: every label list up to MaxLabels entries, *)
(* levels of the vocabulary and one string that is no level.                 *)

MaxLabels == 3

NotALevel == "not a level"

LabelUniverse == Range(distance_features) \cup {NotALevel}

LabelLists == UNION {[1..len -> LabelUniverse] : len \in 0..MaxLabels}

InitConvert ==
    /\ pc = "convert"
    /\ tag_specs = tag_specs_value
    /\ tag_dict = tag_dict_value
    /\ image_tagger = NoTagger
    /\ files = [f \in FileNames |-> NoFile]
    /\ tagged = {}
    /\ \E L \in LabelLists : features = [tag_specs |-> [distance |-> L]]
    /\ feature_names = <<>>
    /\ feature_labels = <<>>
    /\ n_images = 0
    /\ n_features = 0
    /\ X = <<>>
    /\ i = 0
    /\ bound = LabelerCells.imports.binds \cup LabelerCells.tag_specs.binds
                \cup LabelerCells.config.binds \cup LabelerCells.create.binds
                \cup LabelerCells.load.binds
    /\ shown = <<>>
    /\ W13Idle
    /\ W14Idle

NextConvert ==
    \/ ConvertSetup
    \/ ConvertStep

SpecConvert == InitConvert /\ [][NextConvert]_vars

-----------------------------------------------------------------------------
(* Properties of the labeler notebook *)

AllInVocabulary == Range(features["tag_specs"]["distance"]) \subseteq Range(tag_dict["distance"])

\* C1: when every label is a level of feature_names, the conversion cell
\* completes and X has one row per label and one column per level, with
\* X[r][c] = 1 exactly where feature_names[c] is the label of row r, so each
\* row holds exactly one 1.
C1_OneHot ==
    /\ (pc \in {"loop", "visualize", "error"} /\ AllInVocabulary) => pc # "error"
    /\ (pc = "visualize" /\ AllInVocabulary) =>
          /\ Len(X) = Len(feature_labels)
          /\ \A r \in 1..Len(X) :
                /\ Len(X[r]) = Len(feature_names)
                /\ \A c \in 1..Len(feature_names) :
                      X[r][c] = IF feature_names[c] = feature_labels[r] THEN 1 ELSE 0
                /\ Cardinality({c \in 1..Len(X[r]) : X[r][c] = 1}) = 1

C1_Witness ==
    /\ pc = "visualize"
    /\ AllInVocabulary
    /\ Len(feature_labels) >= 2
    /\ feature_labels[1] # feature_labels[2]
    /\ "untagged" \in Range(feature_labels)

\* C2: after the conversion cell has run on a file the labeler wrote,
\* feature_labels is the per-image label array of 'distance' and X has one
\* row per index of label_range.
C2_RowsPerImage ==
    pc = "visualize" =>
        /\ feature_labels = features["distance"]
        /\ Len(X) = Len(label_range)

\* C3: every label stored in the file for a tagged feature F is a level of
\* tag_dict[F], and an image that was never tagged holds "untagged".
C3_FileVocabulary ==
    \A fn \in FileNames : files[fn].exists =>
        \A F \in Range(feature_classes) :
        \A p \in DOMAIN files[fn].json[F] :
            /\ files[fn].json[F][p] \in Range(tag_dict_value[F])
            /\ (label_range[p] \notin tagged) => files[fn].json[F][p] = "untagged"

C3_Witness ==
    /\ files[tag_file].exists
    /\ files[tag_file].json["distance"][1] \notin {"untagged"}
    /\ files[tag_file].json["distance"][2] = "untagged"
    /\ 1 \notin tagged

C5_Resume ==
    [][(pc = "create" /\ pc' = "display" /\ files[tag_file].exists) =>
          \A F \in Range(feature_classes) : \A k \in 1..Len(label_range) :
              image_tagger'.labels[F][label_range[k]] = files[tag_file].json[F][k]]_vars

\* a new session that starts with labels of the previous one
C5_Witness ==
    /\ pc = "display"
    /\ image_tagger.alive
    /\ \E im \in Range(label_range) : image_tagger.labels["distance"][im] # "untagged"

\* C9: every configured vocabulary contains the level "untagged".
C9_UntaggedPresent ==
    /\ \A key \in DOMAIN tag_specs : "untagged" \in Range(tag_specs[key])
    /\ \A key \in DOMAIN tag_dict : "untagged" \in Range(tag_dict[key])
    /\ image_tagger.alive =>
          \A key \in DOMAIN image_tagger.tag_dict :
              "untagged" \in Range(image_tagger.tag_dict[key])

C9_Witness ==
    /\ image_tagger.alive
    /\ DOMAIN image_tagger.tag_dict = {"distance"}
    /\ Cardinality(DOMAIN tag_specs) = 4

\* positions (1-based) of the labels of the loaded list that are no level
UnknownPositions ==
    {k \in 1..Len(features["tag_specs"]["distance"]) :
        features["tag_specs"]["distance"][k] \notin Range(tag_dict["distance"])}

\* C14: when the label list holds a label that is no level, first at position
\* i (0-based), the loop never completes and never gets past i; once the
\* ValueError is raised the loop variable is i, rows 0..i-1 of X are one-hot
\* and rows i..n_images-1 are all zero.
C14_StopsAtUnknownLabel ==
    UnknownPositions # {} =>
        LET fb == CHOOSE k \in UnknownPositions : \A m \in UnknownPositions : k <= m
        IN /\ pc # "visualize"
           /\ i <= fb - 1
           /\ pc = "error" =>
                 /\ i = fb - 1
                 /\ Len(X) = Len(feature_labels)
                 /\ \A r \in 1..Len(X) : \A c \in 1..Len(feature_names) :
                       X[r][c] = IF r < fb /\ feature_names[c] = feature_labels[r]
                                 THEN 1 ELSE 0

\* the unknown label in the middle: one row converted, one label never read
C14_Witness ==
    /\ pc = "error"
    /\ Len(feature_labels) = 3
    /\ i = 1
    /\ feature_labels[1] \in Range(feature_names)
    /\ feature_labels[3] \in Range(feature_names)
    /\ X[1] # X[2]

\* C13: the visualization cell, run after the cells before it, raises no
\* NameError and hands the first 300 rows of X, transposed, to plt.imshow.
C13_VisualizeShowsX ==
    [][(pc = "visualize" /\ pc' \in {"done", "error"}) =>
          /\ pc' = "done"
          /\ shown' = [array |-> "X", rows |-> "[:300]", transposed |-> TRUE]]_vars

-----------------------------------------------------------------------------
(* Week 13: numeric helpers.  Real numbers are kept exact: a quotient is a  *)
(* numerator and a denominator, a power of e is its exponent.               *)

RECURSIVE SumTo(_, _)
\* f[1] + ... + f[m]
SumTo(f, m) == IF m = 0 THEN 0 ELSE f[m] + SumTo(f, m - 1)

\* np.sum of a 1-D array
np_sum(v) == SumTo(v, Len(v))

\* M.T
Transpose(M) == [c \in 1..Len(M[1]) |-> [r \in 1..Len(M) |-> M[r][c]]]

\* A.dot(B), two 2-D arrays
MatMul(A, B) ==
    [r \in 1..Len(A) |-> [c \in 1..Len(B[1]) |->
        SumTo([k \in 1..Len(B) |-> A[r][k] * B[k][c]], Len(B))]]

\* A.dot(v), a 2-D array and a 1-D array
MatVec(A, v) ==
    [r \in 1..Len(A) |-> SumTo([k \in 1..Len(v) |-> A[r][k] * v[k]], Len(v))]

\* np.eye(p)
np_eye(p) == [r \in 1..p |-> [c \in 1..p |-> IF r = c THEN 1 ELSE 0]]

\* s * M
Scale(s, M) == [r \in 1..Len(M) |-> [c \in 1..Len(M[r]) |-> s * M[r][c]]]

\* A + B
MatAdd(A, B) == [r \in 1..Len(A) |-> [c \in 1..Len(A[r]) |-> A[r][c] + B[r][c]]]

\* determinant of a 1x1 or 2x2 matrix
Det(M) ==
    IF Len(M) = 1 THEN M[1][1]
    ELSE M[1][1] * M[2][2] - M[1][2] * M[2][1]

\* adjugate of a 1x1 or 2x2 matrix: inv(M) = Adj(M) / Det(M)
Adj(M) ==
    IF Len(M) = 1 THEN <<<<1>>>>
    ELSE << <<M[2][2], -M[1][2]>>, <<-M[2][1], M[1][1]>> >>

\* np.linalg.inv(M): LinAlgError for a singular matrix, else Adj(M) / Det(M)
np_linalg_inv(M) ==
    IF Det(M) = 0
    THEN [raised |-> TRUE]
    ELSE [raised |-> FALSE, num |-> Adj(M), den |-> Det(M)]

-----------------------------------------------------------------------------
(* Week 13: gauss *)

GaussMax == 2

\* default of the keyword argument amp
gauss_amp_default == 1

\* amp * np.e**(-(x-mu)**2 / (2*sigma)): the value amp * e^(exp_num/exp_den)
gauss(x, mu, sigma, amp) ==
    [amp |-> amp, exp_num |-> -((x - mu) * (x - mu)), exp_den |-> 2 * sigma]

\* a keyword argument: given with a value, or left out
KeywordArgs(values) ==
    {[given |-> FALSE]} \cup {[given |-> TRUE, val |-> v] : v \in values}

ArgOr(arg, default) == IF arg.given THEN arg.val ELSE default

InitGauss ==
    /\ LabIdle
    /\ W14Idle
    /\ ridge_call = [state |-> "none"]
    /\ pc13 = "idle"
    /\ isig = 0
    /\ imu = 0
    /\ gausses = <<>>
    /\ Xreg = <<>>
    /\ B_est = <<>>
    /\ gausses_test = <<>>
    /\ Xtest = <<>>
    /\ b_square = <<>>
    /\ yhat_reg = <<>>
    /\ \E x \in -GaussMax..GaussMax, mu \in -GaussMax..GaussMax,
          sigma \in 1..GaussMax, amp \in KeywordArgs(1..GaussMax) :
          gauss_call = [state |-> "pending", x |-> x, mu |-> mu,
                        sigma |-> sigma, amp |-> amp]

\* one call gauss(x, mu, sigma[, amp])
CallGauss ==
    /\ gauss_call.state = "pending"
    /\ gauss_call' = [gauss_call EXCEPT
                         !.state = "returned",
                         !.amp = [given |-> TRUE,
                                  val |-> ArgOr(gauss_call.amp, gauss_amp_default)]]
                     @@ [value |-> gauss(gauss_call.x, gauss_call.mu, gauss_call.sigma,
                                         ArgOr(gauss_call.amp, gauss_amp_default))]
    /\ UNCHANGED <<labVars, w14Vars, ridge_call, pc13, isig, imu, gausses, Xreg,
                   B_est, gausses_test, Xtest, b_square, yhat_reg>>

SpecGauss == InitGauss /\ [][CallGauss]_vars

\* C7: gauss returns amp * exp(-(x - mu)^2 / (2 * sigma^2)): its exponent
\* equals -(x - mu)^2 / (2 * sigma^2) and its factor is amp.
C7_GaussianStd ==
    gauss_call.state = "returned" =>
        /\ gauss_call.value.amp = gauss_call.amp.val
        /\ gauss_call.value.exp_num * (2 * gauss_call.sigma * gauss_call.sigma)
              = -((gauss_call.x - gauss_call.mu) * (gauss_call.x - gauss_call.mu))
                * gauss_call.value.exp_den

-----------------------------------------------------------------------------
(* Week 13: ridge *)

MaxEntry == 1

\* default of the keyword argument a
ridge_a_default == 0

\* shapes (rows, columns) of the design matrices tried
RidgeShapes == {<<1, 1>>, <<2, 1>>, <<3, 1>>, <<2, 2>>}

Matrices(rows, cols, values) == [1..rows -> [1..cols -> values]]

ridge_no_penalty(XX, YY, aa) ==
    LET inv == np_linalg_inv(MatMul(Transpose(XX), XX))
    IN IF inv.raised
       THEN [raised |-> TRUE]
       ELSE [raised |-> FALSE,
             num |-> MatVec(inv.num, MatVec(Transpose(XX), YY)),
             den |-> inv.den]

\* b = np.linalg.inv(X.T.dot(X) + a * np.eye(X.shape[1])).dot(X.T.dot(Y))
\* the result is num / den, or LinAlgError is raised
ridge(XX, YY, aa) ==
    LET inv == np_linalg_inv(MatAdd(MatMul(Transpose(XX), XX),
                                    Scale(aa, np_eye(Len(XX[1])))))
    IN IF inv.raised
       THEN [raised |-> TRUE]
       ELSE [raised |-> FALSE,
             num |-> MatVec(inv.num, MatVec(Transpose(XX), YY)),
             den |-> inv.den]

InitRidge ==
    /\ LabIdle
    /\ W14Idle
    /\ gauss_call = [state |-> "none"]
    /\ pc13 = "idle"
    /\ isig = 0
    /\ imu = 0
    /\ gausses = <<>>
    /\ Xreg = <<>>
    /\ B_est = <<>>
    /\ gausses_test = <<>>
    /\ Xtest = <<>>
    /\ b_square = <<>>
    /\ yhat_reg = <<>>
    /\ \E shape \in RidgeShapes :
       \E XX \in Matrices(shape[1], shape[2], -MaxEntry..MaxEntry),
          YY \in [1..shape[1] -> 0..MaxEntry],
          aa \in KeywordArgs(0..MaxEntry) :
          ridge_call = [state |-> "pending", X |-> XX, Y |-> YY, a |-> aa]

\* one call ridge(X, Y[, a=...])
CallRidge ==
    /\ ridge_call.state = "pending"
    /\ LET res == ridge(ridge_call.X, ridge_call.Y, ArgOr(ridge_call.a, ridge_a_default))
       IN ridge_call' = [ridge_call EXCEPT
                            !.state = IF res.raised THEN "raised" ELSE "returned"]
                        @@ [b |-> res]
    /\ UNCHANGED <<labVars, w14Vars, gauss_call, pc13, isig, imu, gausses, Xreg,
                   B_est, gausses_test, Xtest, b_square, yhat_reg>>

SpecRidge == InitRidge /\ [][CallRidge]_vars

\* the penalty the claim speaks of: a, or zero when a is left out
RidgePenalty == IF ridge_call.a.given THEN ridge_call.a.val ELSE 0

\* entry (r, c) of X^T X + a I, written out
RidgeGram(r, c) ==
    SumTo([k \in 1..Len(ridge_call.X) |-> ridge_call.X[k][r] * ridge_call.X[k][c]],
          Len(ridge_call.X))
    + (IF r = c THEN RidgePenalty ELSE 0)

\* entry r of X^T Y, written out
RidgeMoment(r) ==
    SumTo([k \in 1..Len(ridge_call.X) |-> ridge_call.X[k][r] * ridge_call.Y[k]],
          Len(ridge_call.X))

RidgeGramSingular ==
    IF Len(ridge_call.X[1]) = 1
    THEN RidgeGram(1, 1) = 0
    ELSE RidgeGram(1, 1) * RidgeGram(2, 2) = RidgeGram(1, 2) * RidgeGram(2, 1)

\* C8: the b that ridge returns satisfies (X^T X + a I) b = X^T Y, with a = 0
\* when a is left out; ridge returns whenever X^T X + a I is invertible.
C8_NormalEquations ==
    /\ ridge_call.state = "returned" =>
          LET p == Len(ridge_call.X[1])
              bb == ridge_call.b
          IN /\ bb.den # 0
             /\ Len(bb.num) = p
             /\ \A r \in 1..p :
                   SumTo([c \in 1..p |-> RidgeGram(r, c) * bb.num[c]], p)
                      = bb.den * RidgeMoment(r)
    /\ ridge_call.state = "raised" => RidgeGramSingular

\* a returned estimate with a > 0, and one with a left out
C8_Witness ==
    /\ ridge_call.state = "returned"
    /\ Len(ridge_call.X[1]) = 2
    /\ ridge_call.a.given
    /\ ridge_call.a.val > 0
    /\ \E r \in 1..2 : ridge_call.b.num[r] # 0

-----------------------------------------------------------------------------
(* Week 13: the linearized model.  The data x, y are random draws; a        *)
(* regressor is kept as the call that built it, a beta weight as the        *)
(* regressor (the column of the design matrix) it multiplies.               *)

n == 101

nmu == 11

nsig == 11

\* np.linspace(lo, hi, num), lo and hi given in tenths; entry k is num/den
np_linspace(lo10, hi10, num) ==
    [k \in 1..num |-> [num |-> lo10 * (num - 1) + (k - 1) * (hi10 - lo10),
                       den |-> 10 * (num - 1)]]

\* np.linspace(-2, 2, nmu)
mu_vals == np_linspace(-20, 20, nmu)

\* np.linspace(0.1, 4, nsig)
sigma_vals == np_linspace(1, 40, nsig)

\* gauss(data, mu_, sigma_) for a data array known by name
Regressor(data, mu_, sigma_) == [at |-> data, mu |-> mu_, sigma |-> sigma_]

\* np.vstack(rows).T: one column per stacked array, in order
VStackT(arrays, rows) == [shape |-> <<rows, Len(arrays)>>, cols |-> arrays]

\* number of points of xtest = np.linspace(-3, 3, 101)
n_test == 101

\* X.dot(B) of a design matrix and a weight vector: the sum over the columns
\* of column times weight, kept as the sequence of its terms
Dot(Xm, B) == [k \in 1..Len(B) |-> [regressor |-> Xm.cols[k], beta |-> B[k]]]

\* what np.linalg.inv can do inside ridge(X, y, a=0): with more columns than
\* rows X^T X is singular, and rounding decides between LinAlgError and a
\* meaningless inverse
RidgeOutcomes(shape) ==
    IF shape[2] > shape[1] THEN {"returned", "raised"} ELSE {"returned"}

\* np.reshape(v, (rows, cols)): row-major (C order)
np_reshape(v, rows, cols) ==
    [r \in 1..rows |-> [c \in 1..cols |-> v[(r - 1) * cols + c]]]

InitLinearized ==
    /\ LabIdle
    /\ W14Idle
    /\ gauss_call = [state |-> "none"]
    /\ ridge_call = [state |-> "none"]
    /\ pc13 = "xreg"
    /\ isig = 0
    /\ imu = 0
    /\ gausses = <<>>
    /\ Xreg = <<>>
    /\ B_est = <<>>
    /\ gausses_test = <<>>
    /\ Xtest = <<>>
    /\ b_square = <<>>
    /\ yhat_reg = <<>>

\* gausses = []  and entry into the nested loops
XregStart ==
    /\ pc13 = "xreg"
    /\ gausses' = <<>>
    /\ isig' = 0
    /\ imu' = 0
    /\ pc13' = "xreg_loop"
    /\ UNCHANGED <<labVars, w14Vars, gauss_call, ridge_call, Xreg, B_est,
                   gausses_test, Xtest, b_square, yhat_reg>>

\* one pass of the inner loop body: gausses.append(gauss(x, mu_, sigma_))
XregAppend ==
    /\ pc13 = "xreg_loop"
    /\ gausses' = Append(gausses, Regressor("x", mu_vals[imu + 1], sigma_vals[isig + 1]))
    /\ IF imu + 1 < nmu
       THEN /\ imu' = imu + 1
            /\ isig' = isig
            /\ pc13' = "xreg_loop"
       ELSE /\ imu' = 0
            /\ isig' = isig + 1
            /\ pc13' = IF isig + 1 < nsig THEN "xreg_loop" ELSE "xreg_stack"
    /\ UNCHANGED <<labVars, w14Vars, gauss_call, ridge_call, Xreg, B_est,
                   gausses_test, Xtest, b_square, yhat_reg>>

\* Xreg = np.vstack(gausses).T
XregStack ==
    /\ pc13 = "xreg_stack"
    /\ Xreg' = VStackT(gausses, n)
    /\ pc13' = "estimate"
    /\ UNCHANGED <<labVars, w14Vars, gauss_call, ridge_call, isig, imu, gausses,
                   B_est, gausses_test, Xtest, b_square, yhat_reg>>

\* B_est = ridge(Xreg, y, a=0): one weight per column of Xreg, in column order
EstimateBeta ==
    /\ pc13 = "estimate"
    /\ \E outcome \in RidgeOutcomes(Xreg.shape) :
          IF outcome = "returned"
          THEN /\ B_est' = [k \in 1..Xreg.shape[2] |-> [weight_of |-> Xreg.cols[k]]]
               /\ pc13' = "predict"
          ELSE /\ B_est' = B_est
               /\ pc13' = "error"     \* LinAlgError: Singular matrix
    /\ UNCHANGED <<labVars, w14Vars, gauss_call, ridge_call, isig, imu, gausses,
                   Xreg, gausses_test, Xtest, b_square, yhat_reg>>

\* within-set prediction: yhat_reg = Xreg.dot(B_est)
PredictWithinSet ==
    /\ pc13 = "predict"
    /\ yhat_reg' = Dot(Xreg, B_est)
    /\ pc13' = "xtest"
    /\ UNCHANGED <<labVars, w14Vars, gauss_call, ridge_call, isig, imu, gausses,
                   Xreg, B_est, gausses_test, Xtest, b_square>>

\* gausses_test = []  and entry into the nested loops
XtestStart ==
    /\ pc13 = "xtest"
    /\ gausses_test' = <<>>
    /\ isig' = 0
    /\ imu' = 0
    /\ pc13' = "xtest_loop"
    /\ UNCHANGED <<labVars, w14Vars, gauss_call, ridge_call, gausses, Xreg, B_est,
                   Xtest, b_square, yhat_reg>>

XtestAppendMuOuter ==
    /\ pc13 = "xtest_loop"
    /\ gausses_test' = Append(gausses_test,
                              Regressor("xtest", mu_vals[isig + 1], sigma_vals[imu + 1]))
    /\ IF imu + 1 < nsig
       THEN /\ imu' = imu + 1
            /\ isig' = isig
            /\ pc13' = "xtest_loop"
       ELSE /\ imu' = 0
            /\ isig' = isig + 1
            /\ pc13' = IF isig + 1 < nmu THEN "xtest_loop" ELSE "xtest_stack"
    /\ UNCHANGED <<labVars, w14Vars, gauss_call, ridge_call, gausses, Xreg, B_est,
                   Xtest, b_square, yhat_reg>>

\* one pass of the inner loop body: gausses_test.append(gauss(xtest, mu_, sigma_))
XtestAppend ==
    /\ pc13 = "xtest_loop"
    /\ gausses_test' = Append(gausses_test,
                              Regressor("xtest", mu_vals[imu + 1], sigma_vals[isig + 1]))
    /\ IF imu + 1 < nmu
       THEN /\ imu' = imu + 1
            /\ isig' = isig
            /\ pc13' = "xtest_loop"
       ELSE /\ imu' = 0
            /\ isig' = isig + 1
            /\ pc13' = IF isig + 1 < nsig THEN "xtest_loop" ELSE "xtest_stack"
    /\ UNCHANGED <<labVars, w14Vars, gauss_call, ridge_call, gausses, Xreg, B_est,
                   Xtest, b_square, yhat_reg>>

\* Xtest = np.vstack(gausses_test).T; yhat_reg = Xtest.dot(B_est)
XtestStack ==
    /\ pc13 = "xtest_stack"
    /\ Xtest' = VStackT(gausses_test, n_test)
    /\ IF Xtest'.shape[2] = Len(B_est)
       THEN /\ yhat_reg' = Dot(Xtest', B_est)
            /\ pc13' = "reshape"
       ELSE /\ yhat_reg' = yhat_reg
            /\ pc13' = "error"        \* ValueError: shapes not aligned
    /\ UNCHANGED <<labVars, w14Vars, gauss_call, ridge_call, isig, imu, gausses,
                   Xreg, B_est, gausses_test, b_square>>

\* b_square = np.reshape(B_est, (nmu, nsig))
ReshapeBeta ==
    /\ pc13 = "reshape"
    /\ IF nmu * nsig = Len(B_est)
       THEN /\ b_square' = np_reshape(B_est, nmu, nsig)
            /\ pc13' = "done"
       ELSE /\ b_square' = b_square
            /\ pc13' = "error"    \* ValueError: cannot reshape
    /\ UNCHANGED <<labVars, w14Vars, gauss_call, ridge_call, isig, imu, gausses,
                   Xreg, B_est, gausses_test, Xtest, yhat_reg>>

NextLinearized ==
    \/ XregStart
    \/ XregAppend
    \/ XregStack
    \/ EstimateBeta
    \/ PredictWithinSet
    \/ XtestStart
    \/ XtestAppend
    \/ XtestStack
    \/ ReshapeBeta

SpecLinearized == InitLinearized /\ [][NextLinearized]_vars

\* C6: after the reshape, b_square[i, j] is the weight of the regressor
\* built with mu = mu_vals[i] and sigma = sigma_vals[j].
C6_RowsAreMu ==
    pc13 = "done" =>
        \A ii \in 0..(nmu - 1) : \A jj \in 0..(nsig - 1) :
            /\ b_square[ii + 1][jj + 1].weight_of.mu = mu_vals[ii + 1]
            /\ b_square[ii + 1][jj + 1].weight_of.sigma = sigma_vals[jj + 1]

\* C12: at the call ridge(Xreg, y, a=0) the design matrix has one column per
\* (sigma, mu) pair and no more columns than rows.
C12_ColumnsWithinRows ==
    pc13 = "estimate" =>
        /\ Xreg.shape[2] = nsig * nmu
        /\ Xreg.shape[1] = n
        /\ Xreg.shape[2] <= Xreg.shape[1]

\* C15: for every k, column k of Xreg and column k of Xtest are built from
\* sigma_vals[k div nmu] and mu_vals[k mod nmu], and the out-of-set prediction
\* pairs each weight with the regressor of the pair it was estimated for.
C15_ColumnsAligned ==
    pc13 \in {"reshape", "done"} =>
        /\ Xreg.shape[2] = nsig * nmu
        /\ Xtest.shape[2] = nsig * nmu
        /\ Len(yhat_reg) = nsig * nmu
        /\ \A k \in 0..(nsig * nmu - 1) :
              LET sg == sigma_vals[(k \div nmu) + 1]
                  m == mu_vals[(k % nmu) + 1]
              IN /\ Xreg.cols[k + 1] = [at |-> "x", mu |-> m, sigma |-> sg]
                 /\ Xtest.cols[k + 1] = [at |-> "xtest", mu |-> m, sigma |-> sg]
                 /\ yhat_reg[k + 1].regressor = Xtest.cols[k + 1]
                 /\ yhat_reg[k + 1].beta.weight_of.mu = m
                 /\ yhat_reg[k + 1].beta.weight_of.sigma = sg

\* both design matrices built; mu varies fastest along the columns
C15_Witness ==
    /\ pc13 = "done"
    /\ Len(gausses_test) = nsig * nmu
    /\ Xtest.cols[1].mu # Xtest.cols[2].mu
    /\ Xtest.cols[1].sigma = Xtest.cols[2].sigma
    /\ Xtest.cols[1].sigma # Xtest.cols[nmu + 1].sigma

-----------------------------------------------------------------------------
(* Week 14: projection of b onto a.  A vector norm is kept as the number    *)
(* under the square root, a quotient by a norm as numerator and norm.       *)

MaxCoord == 2

\* the vectors of the notebook, a = (2, 7) and b = (3, 4), and every vector
\* with coordinates up to MaxCoord that a student may put in their place
Vectors ==
    {<<2, 7>>, <<3, 4>>} \cup [1..2 -> -MaxCoord..MaxCoord]

\* np.linalg.norm(v) of a 1-D array
np_linalg_norm(v) == [sqrt_of |-> np_sum([k \in 1..Len(v) |-> v[k] * v[k]])]

ElementwiseSum(u, v) == [k \in 1..Len(u) |-> u[k] + v[k]]

\* u * v of two 1-D arrays
ElementwiseProduct(u, v) == [k \in 1..Len(u) |-> u[k] * v[k]]

\* s / norm, a scalar over a norm
OverNorm(s, norm) == [num |-> s, over_sqrt_of |-> norm.sqrt_of]

\* v.reshape(rows, cols) of a 1-D array
Reshape2D(v, rows, cols) ==
    [r \in 1..rows |-> [c \in 1..cols |-> v[(r - 1) * cols + c]]]

InitProjection ==
    /\ LabIdle
    /\ W13Idle
    /\ pc14 = "imports"
    /\ a = <<>>
    /\ b = <<>>
    /\ length_a = <<>>
    /\ length_b = <<>>
    /\ proj_b_to_a = <<>>
    /\ a_2d = <<>>
    /\ b_2d = <<>>
    /\ proj_b_to_a_fancy = <<>>
    /\ frac_of_a = <<>>
    /\ c1 = <<>>
    /\ c2 = <<>>
    /\ bound14 = {}
    /\ cell14 = 0

\* the code cells of the notebook in file order, up to the cell that estimates
\* the betas: the names each reads from the kernel's namespace and the names it
\* binds (the data files of the loading cell are taken to be present)
Week14Cells ==
    << [lines |-> <<18, 35>>, reads |-> {},
        binds |-> {"plt", "np", "sys", "os", "json", "cx", "PCA", "zscore", "utils"}],
       [lines |-> <<56, 66>>, reads |-> {"np", "plt"}, binds |-> {"a", "b"}],
       [lines |-> <<96, 99>>, reads |-> {"a", "b", "np"},
        binds |-> {"length_a", "length_b"}],
       [lines |-> <<108, 110>>, reads |-> {"length_a", "np", "a", "b"},
        binds |-> {"proj_b_to_a"}],
       [lines |-> <<128, 134>>, reads |-> {"a", "b", "length_a"},
        binds |-> {"a_2d", "b_2d", "proj_b_to_a_fancy"}],
       [lines |-> <<143, 155>>, reads |-> {"plt", "a", "b", "proj_b_to_a", "length_a"},
        binds |-> {"frac_of_a", "c1", "c2"}],
       [lines |-> <<178, 196>>, reads |-> {"np", "plt", "length_a"},
        binds |-> {"a", "b", "proj_b_to_a", "frac_of_a", "c1", "c2"}],
       [lines |-> <<219, 221>>, reads |-> {"np"},
        binds |-> {"n_voxels", "n_features", "u", "s", "vt"}],
       [lines |-> <<230, 233>>, reads |-> {"n_features", "np", "plt"},
        binds |-> {"n", "x", "w"}],
       [lines |-> <<242, 245>>,
        reads |-> {"n_voxels", "n_features", "np", "s", "w", "vt", "u"},
        binds |-> {"m", "n", "Sd", "y"}],
       [lines |-> <<254, 256>>, reads |-> {"y", "plt"}, binds |-> {}],
       [lines |-> <<265, 265>>, reads |-> {"y", "np"}, binds |-> {}],
       [lines |-> <<282, 283>>, reads |-> {"np"}, binds |-> {"y"}],
       [lines |-> <<292, 296>>, reads |-> {"PCA", "y"}, binds |-> {"pca_fake"}],
       [lines |-> <<305, 307>>, reads |-> {"pca_fake"}, binds |-> {}],
       [lines |-> <<316, 318>>, reads |-> {"plt", "pca_fake"}, binds |-> {}],
       [lines |-> <<334, 337>>, reads |-> {"y"}, binds |-> {"y_demean", "ycov"}],
       [lines |-> <<346, 348>>, reads |-> {"ycov", "plt"}, binds |-> {}],
       [lines |-> <<366, 366>>, reads |-> {"pca_fake"}, binds |-> {}],
       [lines |-> <<375, 375>>, reads |-> {"pca_fake", "n"}, binds |-> {}],
       [lines |-> <<384, 386>>, reads |-> {"pca_fake", "np", "plt"},
        binds |-> {"pca_cov"}],
       [lines |-> <<395, 396>>, reads |-> {"ycov", "np", "pca_cov"}, binds |-> {}],
       [lines |-> <<404, 404>>, reads |-> {}, binds |-> {}],
       [lines |-> <<412, 412>>, reads |-> {}, binds |-> {}],
       [lines |-> <<426, 426>>, reads |-> {}, binds |-> {"h5py"}],
       [lines |-> <<435, 444>>, reads |-> {"h5py"},
        binds |-> {"hf", "Y_est", "Y_val", "mask", "X_est", "X_val"}],
       [lines |-> <<453, 454>>, reads |-> {"Y_est", "X_est"}, binds |-> {}],
       [lines |-> <<463, 464>>, reads |-> {"ols", "X_est", "Y_est"},
        binds |-> {"B"}] >>

\* position in file order of the cell  B = ols(X_est, Y_est)
OlsCell == Len(Week14Cells) - 1

\* the namespace after the cell at the current position has run
BoundAfterCell == bound14 \cup Week14Cells[cell14 + 1].binds

\* the vectors a student puts into the cell marked "CHANGE a and b!"
ExerciseVectorsA == {<<2, 7>>, <<4, 14>>, <<1, 0>>, <<-7, 2>>}
ExerciseVectorsB == {<<3, 4>>, <<0, 1>>}

\* q / norm, a quotient by a norm divided by a norm again
OverNormAgain(q, norm) ==
    [num |-> q.num, over_sqrt_of |-> q.over_sqrt_of * norm.sqrt_of]

\* k * q, an integer times a quotient by a norm
TimesQuotient(k, q) == [num |-> k * q.num, over_sqrt_of |-> q.over_sqrt_of]

\* the import cell
RunImports14 ==
    /\ pc14 = "imports"
    /\ bound14' = BoundAfterCell
    /\ cell14' = cell14 + 1
    /\ pc14' = "vectors"
    /\ UNCHANGED <<labVars, w13Vars, a, b, length_a, length_b, proj_b_to_a, a_2d,
                   b_2d, proj_b_to_a_fancy, frac_of_a, c1, c2>>

\* a = np.array([...]); b = np.array([...])      (a is not the zero vector)
DefineVectors ==
    /\ pc14 = "vectors"
    /\ \E va \in Vectors \ {<<0, 0>>}, vb \in Vectors :
          /\ a' = va
          /\ b' = vb
    /\ bound14' = BoundAfterCell
    /\ cell14' = cell14 + 1
    /\ pc14' = "lengths"
    /\ UNCHANGED <<labVars, w13Vars, length_a, length_b, proj_b_to_a, a_2d, b_2d,
                   proj_b_to_a_fancy, frac_of_a, c1, c2>>

\* length_a = np.linalg.norm(a); length_b = np.linalg.norm(b)
ComputeLengths ==
    /\ pc14 = "lengths"
    /\ length_a' = np_linalg_norm(a)
    /\ length_b' = np_linalg_norm(b)
    /\ bound14' = BoundAfterCell
    /\ cell14' = cell14 + 1
    /\ pc14' = "project"
    /\ UNCHANGED <<labVars, w13Vars, a, b, proj_b_to_a, a_2d, b_2d,
                   proj_b_to_a_fancy, frac_of_a, c1, c2>>

\* proj_b_to_a = np.sum(b * a) / length_a
Project ==
    /\ pc14 = "project"
    /\ proj_b_to_a' = OverNorm(np_sum(ElementwiseProduct(b, a)), length_a)
    /\ bound14' = BoundAfterCell
    /\ cell14' = cell14 + 1
    /\ pc14' = "project_fancy"
    /\ UNCHANGED <<labVars, w13Vars, a, b, length_a, length_b, a_2d, b_2d,
                   proj_b_to_a_fancy, frac_of_a, c1, c2>>

\* a_2d = a.reshape(2, 1); b_2d = b.reshape(2, 1)
\* proj_b_to_a_fancy = a_2d.T.dot(b_2d) / length_a      (a 1x1 array)
ProjectFancy ==
    /\ pc14 = "project_fancy"
    /\ a_2d' = Reshape2D(a, 2, 1)
    /\ b_2d' = Reshape2D(b, 2, 1)
    /\ LET prod == MatMul(Transpose(a_2d'), b_2d')
       IN proj_b_to_a_fancy' =
             [r \in 1..Len(prod) |-> [c \in 1..Len(prod[r]) |->
                 OverNorm(prod[r][c], length_a)]]
    /\ bound14' = BoundAfterCell
    /\ cell14' = cell14 + 1
    /\ pc14' = "plot"
    /\ UNCHANGED <<labVars, w13Vars, a, b, length_a, length_b, proj_b_to_a,
                   frac_of_a, c1, c2>>

\* frac_of_a = proj_b_to_a / length_a; c1 = a[0]*frac_of_a; c2 = a[1]*frac_of_a
PlotProjection ==
    /\ pc14 = "plot"
    /\ frac_of_a' = OverNormAgain(proj_b_to_a, length_a)
    /\ c1' = TimesQuotient(a[1], frac_of_a')
    /\ c2' = TimesQuotient(a[2], frac_of_a')
    /\ bound14' = BoundAfterCell
    /\ cell14' = cell14 + 1
    /\ pc14' = "exercise"
    /\ UNCHANGED <<labVars, w13Vars, a, b, length_a, length_b, proj_b_to_a, a_2d,
                   b_2d, proj_b_to_a_fancy>>

\* the cell "CHANGE a and b!": a and b are assigned anew, the projection and
\* the plotted point are computed again; length_a is read, not assigned
ExerciseCell ==
    /\ pc14 = "exercise"
    /\ \E va \in ExerciseVectorsA, vb \in ExerciseVectorsB :
          /\ a' = va
          /\ b' = vb
    /\ proj_b_to_a' = OverNorm(np_sum(ElementwiseProduct(b', a')), length_a)
    /\ frac_of_a' = OverNormAgain(proj_b_to_a', length_a)
    /\ c1' = TimesQuotient(a'[1], frac_of_a')
    /\ c2' = TimesQuotient(a'[2], frac_of_a')
    /\ bound14' = BoundAfterCell
    /\ cell14' = cell14 + 1
    /\ pc14' = "cells"
    /\ UNCHANGED <<labVars, w13Vars, length_a, length_b, a_2d, b_2d,
                   proj_b_to_a_fancy>>

\* a later code cell, run in file order: it raises NameError when it reads a
\* name that no earlier cell has bound, and binds its names otherwise
RunCell14 ==
    /\ pc14 = "cells"
    /\ IF Week14Cells[cell14 + 1].reads \subseteq bound14
       THEN /\ bound14' = BoundAfterCell
            /\ cell14' = cell14 + 1
            /\ pc14' = IF cell14 + 1 < Len(Week14Cells) THEN "cells" ELSE "done"
       ELSE /\ bound14' = bound14
            /\ cell14' = cell14
            /\ pc14' = "error"        \* NameError: name '...' is not defined
    /\ UNCHANGED <<labVars, w13Vars, a, b, length_a, length_b, proj_b_to_a, a_2d,
                   b_2d, proj_b_to_a_fancy, frac_of_a, c1, c2>>

NextProjection ==
    \/ RunImports14
    \/ DefineVectors
    \/ ComputeLengths
    \/ Project
    \/ ProjectFancy
    \/ PlotProjection
    \/ ExerciseCell
    \/ RunCell14

SpecProjection == InitProjection /\ [][NextProjection]_vars

\* C10: once both cells have run, the matrix form is a 1x1 array whose single
\* entry equals the scalar projection np.sum(b * a) / length_a.
C10_SameProjection ==
    pc14 = "plot" =>
        /\ Len(proj_b_to_a_fancy) = 1
        /\ Len(proj_b_to_a_fancy[1]) = 1
        /\ proj_b_to_a_fancy[1][1] = proj_b_to_a
        /\ proj_b_to_a.num = a[1] * b[1] + a[2] * b[2]
        /\ proj_b_to_a.over_sqrt_of = a[1] * a[1] + a[2] * a[2]

\* the notebook's own vectors, and a pair that is not symmetric in a and b
C10_Witness ==
    /\ pc14 = "plot"
    /\ a = <<2, 7>>
    /\ b = <<3, 4>>
    /\ proj_b_to_a.num = 34
    /\ proj_b_to_a_fancy[1][1].over_sqrt_of = 53

\* q = p / r for a quotient q by a norm and integers p and r > 0, decided
\* without taking the root: same sign, and equal after squaring
EqualsRatio(q, p, r) ==
    /\ (q.num > 0) = (p > 0)
    /\ (q.num < 0) = (p < 0)
    /\ q.num * q.num * r * r = p * p * q.over_sqrt_of

\* C11: after the exercise cell, (c1, c2) = ((a.b)/(a.a)) * a for the a and b
\* the cell assigned, and b - (c1, c2) is perpendicular to a.
C11_OrthogonalProjection ==
    pc14 \in {"cells", "done", "error"} =>
        LET ab == a[1] * b[1] + a[2] * b[2]
            aa == a[1] * a[1] + a[2] * a[2]
        IN /\ c1.over_sqrt_of > 0
           /\ c2.over_sqrt_of = c1.over_sqrt_of
           /\ EqualsRatio(c1, ab * a[1], aa)
           /\ EqualsRatio(c2, ab * a[2], aa)
           /\ EqualsRatio([num |-> a[1] * c1.num + a[2] * c2.num,
                           over_sqrt_of |-> c1.over_sqrt_of], ab, 1)

\* the plotted point of the cell before the exercise, where length_a is the
\* norm of the a in use, is the orthogonal projection
PlotIsProjection ==
    pc14 = "exercise" =>
        /\ EqualsRatio(c1, (a[1] * b[1] + a[2] * b[2]) * a[1],
                       a[1] * a[1] + a[2] * a[2])
        /\ EqualsRatio(c2, (a[1] * b[1] + a[2] * b[2]) * a[2],
                       a[1] * a[1] + a[2] * a[2])

\* C16: when the cell B = ols(X_est, Y_est) is reached in file order, ols is
\* bound, and the cell does not stop on an undefined name.
C16_OlsIsBound ==
    (pc14 \in {"cells", "error"} /\ cell14 = OlsCell) =>
        /\ "ols" \in bound14
        /\ pc14 # "error"

====
